---- MODULE Spec2Model ----
(***************************************************************************)
(* Model of the G-Core CDN log pipeline: the quoted-field tokenizer, the   *)
(* log record decoder, the CMCD query-string extractor and the OTLP        *)
(* emitter.  Text is modelled as a sequence of one-character strings, so   *)
(* that trimming, slicing, escaping and splitting are computed character   *)
(* by character as the Python code computes them.                          *)
(***************************************************************************)
EXTENDS Integers, Sequences, FiniteSets, TLC

VARIABLES
    pc,            \* position of the pipeline for the current input
    line,          \* the raw line handed to the tokenizer / decoder
    fields,        \* result of _parse_quoted_fields (tokenizer runs)
    parsed,        \* result of parse_gcore_log_line: a record or None
    s3_key,        \* the object key the line came from (may be empty)
    event,         \* the arguments of logger.emit, or None
    query_string,  \* input of parse_cmcd_from_query_string
    out,           \* result of parse_cmcd_from_query_string
    \* collector.run: its parameters
    dry_run, inspect_cmcd, verbose,
    max_objects,         \* 0 stands for None (both are false in a test)
    max_lines_per_file,  \* 0 stands for None
    single_key,          \* key: the single key to fetch, or NoKey
    bucket,              \* the objects list_log_objects yields, in listing
                         \* order: bucket[i] holds the lines of object i
    \* collector.run: its local variables
    key_item, line_count, parsed_count, emitted, objects_processed,
    total_lines_read, cmcd_count, total_lines,
    \* collector.run: what it gives out
    stderr,        \* the print statements executed, in order
    emits,         \* the calls of emit_parsed_log, in order
    result         \* the value returned, or NoResult

\* the state of the pipeline for one input
pipeVars == <<line, fields, parsed, s3_key, event, query_string, out>>

runParams == <<dry_run, inspect_cmcd, verbose, max_objects, max_lines_per_file, single_key,
              bucket>>

runLocals == <<key_item, line_count, parsed_count, emitted, objects_processed,
               total_lines_read, cmcd_count, total_lines>>

runOut == <<stderr, emits, result>>

runVars == <<runParams, runLocals, runOut>>

vars == <<pc, pipeVars, runVars>>

\* Python's None, where the other values are records
None == [none |-> TRUE]

\* key=None, and key_item outside the loop over the keys
NoKey == << >>

\* run has not returned; a returned value n is <<n>>
NoResult == << >>

\* the values of run's local variables when run is entered
RunLocalsInit ==
    /\ key_item = NoKey
    /\ line_count = 0
    /\ parsed_count = 0
    /\ emitted = 0
    /\ objects_processed = 0
    /\ total_lines_read = 0
    /\ cmcd_count = 0
    /\ total_lines = 0
    /\ stderr = << >>
    /\ emits = << >>
    /\ result = NoResult

\* run is not called: the tokenizer, extractor and decoder runs
RunIdle ==
    /\ dry_run = FALSE /\ inspect_cmcd = FALSE /\ verbose = FALSE
    /\ max_objects = 0 /\ max_lines_per_file = 0
    /\ single_key = NoKey
    /\ bucket = << >>
    /\ RunLocalsInit

-----------------------------------------------------------------------------
(* Bounds of the model *)

\* longest line, in characters, of the exhaustive tokenizer runs
MaxLineLen == 6

\* most parameters joined by "&" in a query string of the extractor runs
MaxParams == 3

\* most quoted fields in a generated log line
MaxFields == 51

\* most fields of a generated line that are replaced by chosen tokens
MaxOverrides == 2

\* the clock readings at emission are the MaxTick + 1 seconds of Clock
MaxTick == 1

-----------------------------------------------------------------------------
(* Text helpers: Python str operations on sequences of characters *)

DQ == "\""          \* the double quote character
BS == "\\"          \* the backslash character

Min(a, b) == IF a < b THEN a ELSE b
Max(a, b) == IF a > b THEN a ELSE b

\* str.isspace for the characters the model uses
IsSpace(c) == c \in {" ", "\t"}

\* s[a:b] with Python's clamping, for 1-based a and exclusive 1-based b
Slice(s, a, b) == SubSeq(s, a, Min(b - 1, Len(s)))

\* the least element of a non-empty set of numbers
Least(S) == CHOOSE x \in S : \A y \in S : x <= y

\* index of the first character at or after i that is not in the set cs,
\* or Len(s) + 1
LStripFrom(s, i, cs) ==
    IF \E j \in i..Len(s) : s[j] \notin cs
    THEN CHOOSE j \in i..Len(s) : s[j] \notin cs /\ \A k \in i..(j - 1) : s[k] \in cs
    ELSE Max(i, Len(s) + 1)

\* index of the last character at or before j that is not in the set cs,
\* or 0
RStripFrom(s, j, cs) ==
    IF \E i \in 1..j : s[i] \notin cs
    THEN CHOOSE i \in 1..j : s[i] \notin cs /\ \A k \in (i + 1)..j : s[k] \in cs
    ELSE 0

\* str.strip(chars)
StripChars(s, cs) ==
    LET a == LStripFrom(s, 1, cs)
        b == RStripFrom(s, Len(s), cs)
    IN  IF a > b THEN << >> ELSE SubSeq(s, a, b)

\* str.strip()
Strip(s) == StripChars(s, {" ", "\t"})

\* str.startswith
StartsWith(s, p) == Len(s) >= Len(p) /\ SubSeq(s, 1, Len(p)) = p

\* c in s, for a single character c
Contains(s, c) == \E i \in 1..Len(s) : s[i] = c

\* all sequences over S of length at most n
SeqsUpTo(S, n) == UNION {[1..k -> S] : k \in 0..n}

\* index of the first occurrence of the character c in s, or 0
FirstIndex(s, c) ==
    IF Contains(s, c)
    THEN CHOOSE i \in 1..Len(s) : s[i] = c /\ \A k \in 1..(i - 1) : s[k] # c
    ELSE 0

\* str.partition(c) for a single character: <<before, found, after>>
Partition(s, c) ==
    LET i == FirstIndex(s, c)
    IN  IF i = 0 THEN <<s, FALSE, << >> >>
        ELSE <<SubSeq(s, 1, i - 1), TRUE, SubSeq(s, i + 1, Len(s))>>

RECURSIVE Split(_, _)
\* str.split(c) for a single character separator
Split(s, c) ==
    LET p == Partition(s, c)
    IN  IF p[2] THEN <<p[1]>> \o Split(p[3], c) ELSE <<s>>

UpperLetters == <<"A","B","C","D","E","F","G","H","I","J","K","L","M","N","O","P","Q","R","S","T",
    "U","V","W","X","Y","Z">>
LowerLetters == <<"a","b","c","d","e","f","g","h","i","j","k","l","m","n","o","p","q","r","s","t",
    "u","v","w","x","y","z">>

\* str.lower, one character
LowerChar(c) ==
    IF \E i \in 1..26 : UpperLetters[i] = c
    THEN LowerLetters[CHOOSE i \in 1..26 : UpperLetters[i] = c]
    ELSE c

\* str.lower
Lower(s) == [i \in 1..Len(s) |-> LowerChar(s[i])]

\* Insertion-ordered dict: a sequence of entries [k, v] with distinct keys.
DictHas(d, k) == \E i \in 1..Len(d) : d[i].k = k
DictIndex(d, k) == CHOOSE i \in 1..Len(d) : d[i].k = k
DictGet(d, k) == d[DictIndex(d, k)].v
DictKeys(d) == {d[i].k : i \in 1..Len(d)}
\* d[k] = v: an existing key keeps its place, a new key goes last
DictSet(d, k, v) ==
    IF DictHas(d, k)
    THEN [d EXCEPT ![DictIndex(d, k)] = [k |-> k, v |-> v]]
    ELSE Append(d, [k |-> k, v |-> v])

-----------------------------------------------------------------------------
(* cdn_log_parser._parse_quoted_fields *)

\* the elements of s at the indices of the set K, in order
Pick(s, K) ==
    LET idx == SelectSeq([i \in 1..Len(s) |-> i], LAMBDA i : i \in K)
    IN  [j \in 1..Len(idx) |-> s[idx[j]]]

\* s.replace('\\"', '"'): two occurrences of backslash-quote cannot overlap,
\* so every backslash that stands right before a quote is dropped
ReplaceEscapedQuote(s) ==
    Pick(s, {i \in 1..Len(s) : ~(s[i] = BS /\ i < Len(s) /\ s[i + 1] = DQ)})

RECURSIVE FieldEndNoEscape(_, _)
\* the inner loop with the escape test left out
FieldEndNoEscape(ln, i) ==
    IF i <= Len(ln) /\ ln[i] # DQ THEN FieldEndNoEscape(ln, i + 1) ELSE i

RECURSIVE FieldEnd(_, _)
\* the inner while loop: the index at which it stops, started at index i
FieldEnd(ln, i) ==
    IF i <= Len(ln) /\ ln[i] # DQ
    THEN FieldEnd(ln, IF ln[i] = BS THEN i + 2 ELSE i + 1)
    ELSE i

\* the index of the first quote at or after i, or Len(ln) + 1: where the
\* outer loop stands after its else branch (i += 1) has skipped what lies
\* between fields
NextQuote(ln, i) ==
    IF \E j \in i..Len(ln) : ln[j] = DQ
    THEN CHOOSE j \in i..Len(ln) : ln[j] = DQ /\ \A k \in i..(j - 1) : ln[k] # DQ
    ELSE Len(ln) + 1

\* the field whose opening quote stands at index q
FieldAt(ln, q) ==
    ReplaceEscapedQuote(Slice(ln, q + 1, FieldEnd(ln, q + 1)))

\* the index at which the outer loop goes on after the field opened at q:
\* past the closing quote when there is one
AfterField(ln, q) ==
    LET e == FieldEnd(ln, q + 1)
    IN  IF e <= Len(ln) THEN e + 1 ELSE e

RECURSIVE ScanFields(_, _, _)
\* the outer while loop from index i on, with the fields gathered so far
\* (Len(acc) >= 0 holds always: it has the fields evaluated at each turn of
\* the loop rather than all at its end)
ScanFields(ln, i, acc) ==
    IF Len(acc) >= 0 /\ NextQuote(ln, i) > Len(ln) THEN acc
    ELSE ScanFields(ln, AfterField(ln, NextQuote(ln, i)),
                    Append(acc, FieldAt(ln, NextQuote(ln, i))))

_parse_quoted_fields(ln) == ScanFields(ln, 1, << >>)

-----------------------------------------------------------------------------
(* Tokenizer runs: every line over a small alphabet *)

TokAlphabet == {DQ, BS, "a", " "}

InitTok ==
    /\ RunIdle
    /\ pc = "tok_start"
    /\ line \in SeqsUpTo(TokAlphabet, MaxLineLen)
    /\ fields = << >>
    /\ parsed = None
    /\ s3_key = << >>
    /\ event = None
    /\ query_string = << >>
    /\ out = << >>

Tokenize ==
    /\ pc = "tok_start"
    /\ fields' = _parse_quoted_fields(line)
    /\ pc' = "tok_done"
    /\ UNCHANGED <<line, parsed, s3_key, event, query_string, out, runVars>>

NextTok == Tokenize

SpecTok == InitTok /\ [][NextTok]_vars

-----------------------------------------------------------------------------
(* C2: the tokenizer against a character classifier *)

\* The scanner state after reading a character in state st: outside a field,
\* inside a field, or inside a field right after an escaping backslash.
Delta(st, c) ==
    CASE st = "out" -> IF c = DQ THEN "in" ELSE "out"
      [] st = "in"  -> IF c = DQ THEN "out" ELSE IF c = BS THEN "esc" ELSE "in"
      [] st = "esc" -> "in"

RECURSIVE ScanStates(_, _, _)
ScanStates(ln, i, acc) ==
    IF i > Len(ln) THEN acc
    ELSE ScanStates(ln, i + 1, Append(acc, Delta(acc[i], ln[i])))

\* States(ln)[i] is the scanner state in which character i of ln is read
States(ln) == ScanStates(ln, 1, <<"out">>)

\* the opening quotes met outside a field
Openings(ln) ==
    LET st == States(ln)
    IN  {i \in 1..Len(ln) : st[i] = "out" /\ ln[i] = DQ}

\* the unescaped quote that closes the field opened at i, or end of input
Closing(ln, i) ==
    LET st == States(ln)
        cl == {j \in (i + 1)..Len(ln) : st[j] = "in" /\ ln[j] = DQ}
    IN  IF cl = {} THEN Len(ln) + 1
        ELSE CHOOSE j \in cl : \A k \in cl : j <= k

RECURSIVE Keep(_, _, _, _)
\* the characters of ln[a..b], less each backslash that escapes a quote
Keep(ln, st, a, b) ==
    IF a > b THEN << >>
    ELSE (IF st[a] = "in" /\ ln[a] = BS /\ a + 1 <= b /\ ln[a + 1] = DQ
          THEN << >> ELSE <<ln[a]>>)
         \o Keep(ln, st, a + 1, b)

\* the text of the field opened at i
FieldText(ln, i) == Keep(ln, States(ln), i + 1, Closing(ln, i) - 1)

RECURSIVE InOrder(_)
\* the elements of a finite set of numbers, ascending
InOrder(S) ==
    IF S = {} THEN << >>
    ELSE LET m == CHOOSE x \in S : \A y \in S : x <= y
         IN  <<m>> \o InOrder(S \ {m})

ExpectedFields(ln) ==
    LET op == InOrder(Openings(ln))
    IN  [k \in 1..Len(op) |-> FieldText(ln, op[k])]

\* C2: the tokenizer returns, in source order, one field per opening quote
\* met outside a field: the text up to the next unescaped quote, or to the
\* end of input when the quote is never closed, with each escaped quote
\* replaced by a quote and every other escaped character kept as written;
\* a line with no quote yields the empty sequence.
C2_TokenizerFields ==
    pc = "tok_done" =>
        /\ fields = ExpectedFields(line)
        /\ (~Contains(line, DQ) => fields = << >>)

\* an unterminated field that holds an escaped quote and an escaped backslash
C2_Witness ==
    /\ pc = "tok_done"
    /\ line = <<DQ, BS, DQ, BS, BS, "a">>
    /\ fields = <<(<<DQ, BS, BS, "a">>)>>

-----------------------------------------------------------------------------
(* urllib.parse.parse_qs, as cmcd_parser calls it (keep_blank_values=True) *)

\* name.replace('+', ' ')
PlusToSpace(s) == [i \in 1..Len(s) |-> IF s[i] = "+" THEN " " ELSE s[i]]

\* The percent escapes the model's inputs use; any other "%" is kept as
\* written, which is what unquote does with a "%" not followed by two hex
\* digits.
HexEscapes == {<<"2","2">>, <<"2","0">>, <<"2","C">>, <<"3","D">>}
HexValue(h) ==
    CASE h = <<"2","2">> -> DQ
      [] h = <<"2","0">> -> " "
      [] h = <<"2","C">> -> ","
      [] h = <<"3","D">> -> "="

\* whether a percent escape of HexEscapes starts at index i of s
EscapeAt(s, i) ==
    i >= 1 /\ i + 2 <= Len(s) /\ s[i] = "%" /\ <<s[i + 1], s[i + 2]>> \in HexEscapes

\* s with each escape replaced by its character: the two characters after
\* the "%" of an escape are hex digits, so escapes do not overlap
unquote(s) ==
    LET dec == [i \in 1..Len(s) |->
                   IF EscapeAt(s, i) THEN HexValue(<<s[i + 1], s[i + 2]>>) ELSE s[i]]
    IN  Pick(dec, {i \in 1..Len(s) : ~EscapeAt(s, i - 1) /\ ~EscapeAt(s, i - 2)})

RECURSIVE QslFrom(_, _)
\* parse_qsl over the "&"-separated pieces from piece i on
QslFrom(pieces, i) ==
    IF i > Len(pieces) THEN << >>
    ELSE IF pieces[i] = << >> THEN QslFrom(pieces, i + 1)
    ELSE LET nv == Partition(pieces[i], "=")
         IN  <<[name  |-> unquote(PlusToSpace(nv[1])),
                value |-> unquote(PlusToSpace(nv[3]))]>>
             \o QslFrom(pieces, i + 1)

\* the (name, value) pairs of a query string, in order
parse_qsl(qs) == QslFrom(Split(qs, "&"), 1)

RECURSIVE GroupPairs(_, _, _)
GroupPairs(pairs, i, d) ==
    IF i > Len(pairs) THEN d
    ELSE LET n == pairs[i].name
         IN  GroupPairs(pairs, i + 1,
                 DictSet(d, n, IF DictHas(d, n)
                               THEN Append(DictGet(d, n), pairs[i].value)
                               ELSE <<pairs[i].value>>))

\* dict: name -> list of values, names in order of first occurrence
parse_qs(qs) == GroupPairs(parse_qsl(qs), 1, << >>)

-----------------------------------------------------------------------------
(* cmcd_parser.parse_cmcd_from_query_string *)

CmcdName == <<"c","m","c","d">>
CmcdDot  == <<"c","m","c","d",".">>

\* _clean with every layer of surrounding double quotes stripped
CleanAllLayers(v0) == StripChars(Strip(v0), {DQ})

\* _clean: strip one level of surrounding double quotes
_clean(v0) ==
    LET v == Strip(v0)
    IN  IF Len(v) >= 2 /\ v[1] = DQ /\ v[Len(v)] = DQ
        THEN SubSeq(v, 2, Len(v) - 1)
        ELSE v

\* next((params[k] for k in params if k.lower() == "cmcd"), None) or []
cmcd_param(params) ==
    LET idx == {i \in 1..Len(params) : Lower(params[i].k) = CmcdName}
    IN  IF idx = {} THEN << >>
        ELSE params[CHOOSE i \in idx : \A j \in idx : i <= j].v

RECURSIVE PairsInto(_, _, _)
\* for pair in raw.split(","): ... out[f"cmcd.{k}"] = _clean(v)
PairsInto(pairs, i, d) ==
    IF i > Len(pairs) THEN d
    ELSE LET pair == Strip(pairs[i])
             kv   == Partition(pair, "=")
             k    == Strip(kv[1])
             v    == Strip(kv[3])
         IN  IF kv[2] /\ k # << >>
             THEN PairsInto(pairs, i + 1, DictSet(d, CmcdDot \o k, _clean(v)))
             ELSE PairsInto(pairs, i + 1, d)

RECURSIVE CombinedPass(_, _, _)
\* for raw in (cmcd_param or []): ...
CombinedPass(raws, i, d) ==
    IF i > Len(raws) THEN d
    ELSE CombinedPass(raws, i + 1, PairsInto(Split(raws[i], ","), 1, d))

RECURSIVE PrefixedPass(_, _, _)
\* for key, values in params.items(): if key.startswith("cmcd.") ...
PrefixedPass(params, i, d) ==
    IF i > Len(params) THEN d
    ELSE LET key      == params[i].k
             values   == params[i].v
             cmcd_key == SubSeq(key, 6, Len(key))
         IN  IF StartsWith(key, CmcdDot) /\ values # << >> /\ cmcd_key # << >>
             THEN PrefixedPass(params, i + 1,
                               DictSet(d, CmcdDot \o cmcd_key, _clean(values[1])))
             ELSE PrefixedPass(params, i + 1, d)

parse_cmcd_from_query_string(qs) ==
    IF qs = << >> \/ Strip(qs) = << >> THEN << >>
    ELSE LET params == parse_qs(qs)
         IN  PrefixedPass(params, 1, CombinedPass(cmcd_param(params), 1, << >>))

\* parse_cmcd_from_path: the extractor on the text after the first "?"
parse_cmcd_from_path(path_with_query) ==
    IF path_with_query = << >> THEN << >>
    ELSE IF Contains(path_with_query, "?")
         THEN parse_cmcd_from_query_string(Partition(path_with_query, "?")[3])
         ELSE << >>

-----------------------------------------------------------------------------
(* Extractor runs: query strings of up to MaxParams parameters *)

ParamPool == {
    <<"c","m","c","d","=","b","r","=","1">>,
    <<"C","M","C","D","=","b","l","=","2">>,
    <<"c","m","c","d","=","b","r","=","3",",","b","l","=","\"","x","\"">>,
    <<"c","m","c","d","="," ","d"," ","="," ","4"," ",",","x",",","=","5">>,
    <<"c","m","c","d">>,
    <<"c","m","c","d",".","b","r","=","7">>,
    <<"c","m","c","d",".","b","r","=">>,
    <<"c","m","c","d",".","=","9">>,
    <<"c","m","c","d",".","s","i","d","=","%","2","2","a","+","b","%","2","2">>,
    <<"c","m","c","d",".","c","i","d","=","%","2","2","%","2","2","c","%","2","2","%","2","2">>,
    <<"c","m","c","d",".","v","=","%","2","2">>,
    <<"c","m","c","d",".","o","t","="," ","v"," ">>,
    <<"x","=","1">>,
    <<" ">> }

RECURSIVE JoinAmp(_)
\* "&".join(ps)
JoinAmp(ps) ==
    IF Len(ps) = 0 THEN << >>
    ELSE IF Len(ps) = 1 THEN ps[1]
    ELSE ps[1] \o <<"&">> \o JoinAmp(Tail(ps))

Queries == {JoinAmp(ps) : ps \in SeqsUpTo(ParamPool, MaxParams)}

InitCmcd ==
    /\ RunIdle
    /\ pc = "cmcd_start"
    /\ query_string \in Queries
    /\ out = << >>
    /\ line = << >>
    /\ fields = << >>
    /\ parsed = None
    /\ s3_key = << >>
    /\ event = None

ExtractCmcd ==
    /\ pc = "cmcd_start"
    /\ out' = parse_cmcd_from_query_string(query_string)
    /\ pc' = "cmcd_done"
    /\ UNCHANGED <<line, fields, parsed, s3_key, event, query_string, runVars>>

NextCmcd == ExtractCmcd

SpecCmcd == InitCmcd /\ [][NextCmcd]_vars

-----------------------------------------------------------------------------
(* C7, C8: the two encodings as the specification describes them *)

\* the values of all occurrences of the combined parameter, its name matched
\* in any letter case, in the order of the query string
CombinedOccurrences(qs) ==
    LET ps == parse_qsl(qs)
    IN  SelectSeq([i \in 1..Len(ps) |-> ps[i]], LAMBDA p : Lower(p.name) = CmcdName)

RECURSIVE PairsOf(_, _)
\* the trimmed key=value pairs of a comma-separated list, keys non-empty
PairsOf(items, i) ==
    IF i > Len(items) THEN << >>
    ELSE LET kv == Partition(Strip(items[i]), "=")
         IN  (IF kv[2] /\ Strip(kv[1]) # << >>
              THEN <<[k |-> CmcdDot \o Strip(kv[1]), v |-> _clean(kv[3])]>>
              ELSE << >>) \o PairsOf(items, i + 1)

RECURSIVE CombinedPairsFrom(_, _)
CombinedPairsFrom(occ, i) ==
    IF i > Len(occ) THEN << >>
    ELSE PairsOf(Split(occ[i].value, ","), 1) \o CombinedPairsFrom(occ, i + 1)

\* every pair of every occurrence of the combined parameter, in order
CombinedPairs(qs) == CombinedPairsFrom(CombinedOccurrences(qs), 1)

\* the prefixed parameters with a non-empty key, in order
PrefixedParams(qs) ==
    LET ps == parse_qsl(qs)
    IN  SelectSeq([i \in 1..Len(ps) |-> ps[i]],
                  LAMBDA p : StartsWith(p.name, CmcdDot) /\ Len(p.name) > 5)

\* the value of the first prefixed parameter named n
FirstPrefixedValue(qs, n) ==
    LET pp == PrefixedParams(qs)
    IN  pp[CHOOSE i \in 1..Len(pp) :
               pp[i].name = n /\ \A j \in 1..(i - 1) : pp[j].name # n].value

\* C7: every occurrence of the combined parameter, its name matched in any
\* letter case, is processed: each of its pairs puts its key into the result,
\* and the keys enter the result in the order in which they are met.
C7_AllOccurrencesProcessed ==
    pc = "cmcd_done" =>
        LET cp == CombinedPairs(query_string)
            First(k) == CHOOSE i \in 1..Len(cp) :
                            cp[i].k = k /\ \A j \in 1..(i - 1) : cp[j].k # k
        IN  /\ \A i \in 1..Len(cp) : DictHas(out, cp[i].k)
            /\ \A i, j \in 1..Len(cp) :
                   First(cp[i].k) < First(cp[j].k)
                   => DictIndex(out, cp[i].k) < DictIndex(out, cp[j].k)

\* C8: the result is the union of the keys of the two forms; a key of the
\* prefixed form holds that form's first value, also when the combined form
\* names the same key, wherever the parameters stand in the query string; a
\* key of the combined form alone holds a value that form gives it.
C8_UnionPrefixedWins ==
    pc = "cmcd_done" =>
        LET cp == CombinedPairs(query_string)
            pp == PrefixedParams(query_string)
            ck == {cp[i].k : i \in 1..Len(cp)}
            pk == {pp[i].name : i \in 1..Len(pp)}
        IN  /\ DictKeys(out) = ck \cup pk
            /\ \A n \in pk :
                   DictHas(out, n)
                   => DictGet(out, n) = _clean(FirstPrefixedValue(query_string, n))
            /\ \A k \in ck \ pk :
                   DictHas(out, k)
                   => \E i \in 1..Len(cp) : cp[i].k = k /\ cp[i].v = DictGet(out, k)

\* the key=raw-value pairs of a comma-separated list, keys non-empty, the
\* values as written
RECURSIVE RawPairsOf(_, _)
RawPairsOf(items, i) ==
    IF i > Len(items) THEN << >>
    ELSE LET kv == Partition(Strip(items[i]), "=")
         IN  (IF kv[2] /\ Strip(kv[1]) # << >>
              THEN <<[k |-> CmcdDot \o Strip(kv[1]), raw |-> kv[3]]>>
              ELSE << >>) \o RawPairsOf(items, i + 1)

RECURSIVE RawCombinedPairsFrom(_, _)
RawCombinedPairsFrom(occ, i) ==
    IF i > Len(occ) THEN << >>
    ELSE RawPairsOf(Split(occ[i].value, ","), 1) \o RawCombinedPairsFrom(occ, i + 1)

\* every pair of every occurrence of the combined parameter, values as written
RawCombinedPairs(qs) == RawCombinedPairsFrom(CombinedOccurrences(qs), 1)

\* whether a text starts and ends with a double quote and has length >= 2
QuoteEnclosed(t) == Len(t) >= 2 /\ t[1] = DQ /\ t[Len(t)] = DQ

\* a written value with one layer of surrounding quotes removed: the trimmed
\* value less its first and last character when it is quote-enclosed, the
\* trimmed value otherwise
OneLayer(raw) ==
    LET t == Strip(raw)
    IN  IF QuoteEnclosed(t) THEN [i \in 1..(Len(t) - 2) |-> t[i + 1]] ELSE t

\* a value that can be written into a query string as it is
Plain(v) ==
    /\ v # << >> /\ v = Strip(v) /\ ~QuoteEnclosed(v)
    /\ \A i \in 1..Len(v) : v[i] \notin {"&", "=", ",", "%", "+", ";"}

\* C11: every value of the result is a value written for its key in one of
\* the two forms with at most one layer of surrounding double quotes removed:
\* a trimmed value of length >= 2 that starts and ends with a quote loses
\* its first and last character, any other value is only trimmed; and the
\* quoted and the unquoted spelling of a plain value decode to the same
\* result in either form.
C11_OneQuoteLayer ==
    pc = "cmcd_done" =>
        LET rp == RawCombinedPairs(query_string)
            pp == PrefixedParams(query_string)
            pk == {pp[i].name : i \in 1..Len(pp)}
        IN  \A j \in 1..Len(out) :
                LET k == out[j].k
                    v == out[j].v
                    q == <<DQ>> \o v \o <<DQ>>
                IN  /\ IF k \in pk
                       THEN v = OneLayer(FirstPrefixedValue(query_string, k))
                       ELSE \E i \in 1..Len(rp) : rp[i].k = k /\ v = OneLayer(rp[i].raw)
                    /\ Plain(v) =>
                          /\ parse_cmcd_from_query_string(k \o <<"=">> \o q)
                                = parse_cmcd_from_query_string(k \o <<"=">> \o v)
                          /\ parse_cmcd_from_query_string(CmcdName \o <<"=", "k", "=">> \o q)
                                = parse_cmcd_from_query_string(CmcdName \o <<"=", "k", "=">> \o v)
                          /\ parse_cmcd_from_query_string(k \o <<"=">> \o v)
                                = <<[k |-> k, v |-> v]>>

\* a value written in two layers of quotes has lost one, beside a value that
\* is a lone quote and is returned as written
C11_Witness ==
    /\ pc = "cmcd_done"
    /\ \E j \in 1..Len(out) : out[j].v = <<DQ, "c", DQ>>
    /\ \E j \in 1..Len(out) : out[j].v = <<DQ>>
    /\ \E j \in 1..Len(out) : Plain(out[j].v)

-----------------------------------------------------------------------------
(* cdn_log_parser: the log record decoder *)

\* G-Core log field order; FIELD_NAMES[idx + 1] names the token at index idx
FIELD_NAMES == <<
    <<"r","e","m","o","t","e","_","a","d","d","r">>,
    <<"_">>,
    <<"r","e","m","o","t","e","_","u","s","e","r">>,
    <<"t","i","m","e","_","l","o","c","a","l">>,
    <<"r","e","q","u","e","s","t">>,
    <<"s","t","a","t","u","s">>,
    <<"b","o","d","y","_","b","y","t","e","s","_","s","e","n","t">>,
    <<"h","t","t","p","_","r","e","f","e","r","e","r">>,
    <<"h","t","t","p","_","u","s","e","r","_","a","g","e","n","t">>,
    <<"b","y","t","e","s","_","s","e","n","t">>,
    <<"e","d","g","e","n","a","m","e">>,
    <<"s","c","h","e","m","e">>,
    <<"h","o","s","t">>,
    <<"r","e","q","u","e","s","t","_","t","i","m","e">>,
    <<"u","p","s","t","r","e","a","m","_","r","e","s","p","o","n","s","e","_","t","i","m","e">>,
    <<"r","e","q","u","e","s","t","_","l","e","n","g","t","h">>,
    <<"h","t","t","p","_","r","a","n","g","e">>,
    <<"r","e","s","p","o","n","d","i","n","g","_","n","o","d","e">>,
    <<"u","p","s","t","r","e","a","m","_","c","a","c","h","e","_","s","t","a","t","u","s">>,
    <<"u","p","s","t","r","e","a","m","_","r","e","s","p","o","n","s","e","_","l","e","n","g","t",
        "h">>,
    <<"u","p","s","t","r","e","a","m","_","a","d","d","r">>,
    <<"g","c","d","n","_","a","p","i","_","c","l","i","e","n","t","_","i","d">>,
    <<"g","c","d","n","_","a","p","i","_","r","e","s","o","u","r","c","e","_","i","d">>,
    <<"u","i","d","_","g","o","t">>,
    <<"u","i","d","_","s","e","t">>,
    <<"g","e","o","i","p","_","c","o","u","n","t","r","y","_","c","o","d","e">>,
    <<"g","e","o","i","p","_","c","i","t","y">>,
    <<"s","h","i","e","l","d","_","t","y","p","e">>,
    <<"s","e","r","v","e","r","_","a","d","d","r">>,
    <<"s","e","r","v","e","r","_","p","o","r","t">>,
    <<"u","p","s","t","r","e","a","m","_","s","t","a","t","u","s">>,
    <<"_","2">>,
    <<"u","p","s","t","r","e","a","m","_","c","o","n","n","e","c","t","_","t","i","m","e">>,
    <<"u","p","s","t","r","e","a","m","_","h","e","a","d","e","r","_","t","i","m","e">>,
    <<"s","h","a","r","d","_","a","d","d","r">>,
    <<"g","e","o","i","p","2","_","d","a","t","a","_","a","s","n","u","m","b","e","r">>,
    <<"c","o","n","n","e","c","t","i","o","n">>,
    <<"c","o","n","n","e","c","t","i","o","n","_","r","e","q","u","e","s","t","s">>,
    <<"h","t","t","p","_","t","r","a","c","e","p","a","r","e","n","t">>,
    <<"h","t","t","p","_","x","_","f","o","r","w","a","r","d","e","d","_","p","r","o","t","o">>,
    <<"g","c","d","n","_","i","n","t","e","r","n","a","l","_","s","t","a","t","u","s","_","c","o",
        "d","e">>,
    <<"s","s","l","_","c","i","p","h","e","r">>,
    <<"s","s","l","_","s","e","s","s","i","o","n","_","i","d">>,
    <<"s","s","l","_","s","e","s","s","i","o","n","_","r","e","u","s","e","d">>,
    <<"s","e","n","t","_","h","t","t","p","_","c","o","n","t","e","n","t","_","t","y","p","e">>,
    <<"t","c","p","i","n","f","o","_","r","t","t">>,
    <<"s","e","r","v","e","r","_","c","o","u","n","t","r","y","_","c","o","d","e">>,
    <<"g","c","d","n","_","t","c","p","i","n","f","o","_","s","n","d","_","c","w","n","d">>,
    <<"g","c","d","n","_","t","c","p","i","n","f","o","_","t","o","t","a","l","_","r","e","t","r",
        "a","n","s">>,
    <<"g","c","d","n","_","r","u","l","e","_","i","d">> >>

\* fewest fields of a line that is a record
MinFields == 10

CdnDot == <<"c","d","n",".">>

\* get(idx, default): the trimmed token at 0-based idx, or the default
get(fs, idx, default) ==
    IF 0 <= idx /\ idx < Len(fs)
    THEN (IF Strip(fs[idx + 1]) # << >> THEN Strip(fs[idx + 1]) ELSE default)
    ELSE default

\* _strip_brackets: s.strip("[]") if s else ""
_strip_brackets(s) == IF s # << >> THEN StripChars(s, {"[", "]"}) ELSE << >>

\* index of the first whitespace character of s at or after i, or Len(s) + 1
WordEnd(s, i) ==
    IF \E j \in i..Len(s) : IsSpace(s[j])
    THEN CHOOSE j \in i..Len(s) : IsSpace(s[j]) /\ \A k \in i..(j - 1) : ~IsSpace(s[k])
    ELSE Max(i, Len(s) + 1)

\* parse_request: the first two words of request.split(None, 2)
parse_request(request) ==
    LET a1 == LStripFrom(request, 1, {" ", "\t"})
        e1 == WordEnd(request, a1)
        a2 == LStripFrom(request, e1, {" ", "\t"})
        e2 == WordEnd(request, a2)
    IN  IF a1 > Len(request) THEN << << >>, << >> >>
        ELSE IF a2 > Len(request) THEN <<SubSeq(request, a1, e1 - 1), << >> >>
        ELSE <<SubSeq(request, a1, e1 - 1), SubSeq(request, a2, e2 - 1)>>

\* the startswith tests of _find_request_field
MethodPrefixes == {<<"G","E","T"," ">>, <<"P","O","S","T"," ">>, <<"H","E","A","D"," ">>, <<"P",
    "U","T"," ">>, <<"O","P","T","I","O","N","S"," ">>}

\* the test _find_request_field applies to a trimmed token
LooksLikeRequest(s) ==
    /\ \E p \in MethodPrefixes : StartsWith(s, p)
    /\ Contains(Strip(SubSeq(s, 5, Len(s))), " ")
    /\ Contains(s, "/")

\* for f in fields: ... return s: the first token that passes the test
_find_request_field(fs) ==
    LET hits == {i \in 1..Len(fs) : LooksLikeRequest(Strip(fs[i]))}
    IN  IF hits = {} THEN << >> ELSE Strip(fs[Least(hits)])

\* the test _find_cmcd_raw_field applies to a trimmed token
IsCmcdRaw(s) == StartsWith(s, <<"C","M","C","D","=">>) \/ StartsWith(s, <<"c","m","c","d","=">>)

_find_cmcd_raw_field(fs) ==
    LET hits == {i \in 1..Len(fs) : IsCmcdRaw(Strip(fs[i]))}
    IN  IF hits = {} THEN << >> ELSE Strip(fs[Least(hits)])

\* the default of an attribute whose trimmed token is empty
EmptyDefault == <<"-">>

\* for idx, name in enumerate(FIELD_NAMES): ... attrs[f"cdn.{name}"] = ...
\* The names of FIELD_NAMES are distinct, so each assignment adds an entry.
ColumnAttrs(fs) ==
    LET cols == SelectSeq([i \in 1..Len(FIELD_NAMES) |-> i - 1],
                          LAMBDA idx : /\ ~StartsWith(FIELD_NAMES[idx + 1], <<"_">>)
                                       /\ idx < Len(fs))
    IN  [j \in 1..Len(cols) |->
            [k |-> CdnDot \o FIELD_NAMES[cols[j] + 1],
             v |-> IF Strip(fs[cols[j] + 1]) # << >>
                   THEN Strip(fs[cols[j] + 1]) ELSE EmptyDefault]]

\* request = _find_request_field(fields) or get(4)
RequestOf(fs) ==
    IF _find_request_field(fs) # << >> THEN _find_request_field(fs)
    ELSE get(fs, 4, << >>)

\* cmcd_attrs: from the path, else from the raw "CMCD=" field
CmcdAttrsOf(fs, path) ==
    LET from_path == parse_cmcd_from_path(path)
        raw_cmcd  == _find_cmcd_raw_field(fs)
    IN  IF from_path # << >> THEN from_path
        ELSE IF raw_cmcd # << >> THEN parse_cmcd_from_query_string(raw_cmcd)
        ELSE from_path

RECURSIVE MergeCmcdAll(_, _, _)
\* the merge loop without its test for an empty value
MergeCmcdAll(cmcd_attrs, i, attrs) ==
    IF i > Len(cmcd_attrs) THEN attrs
    ELSE MergeCmcdAll(cmcd_attrs, i + 1,
                      DictSet(attrs, cmcd_attrs[i].k, cmcd_attrs[i].v))

RECURSIVE MergeCmcd(_, _, _)
\* for k, v in cmcd_attrs.items(): if v: attrs[k] = v
MergeCmcd(cmcd_attrs, i, attrs) ==
    IF i > Len(cmcd_attrs) THEN attrs
    ELSE IF cmcd_attrs[i].v # << >>
         THEN MergeCmcd(cmcd_attrs, i + 1,
                        DictSet(attrs, cmcd_attrs[i].k, cmcd_attrs[i].v))
         ELSE MergeCmcd(cmcd_attrs, i + 1, attrs)

\* the ParsedCDNLog built from the trimmed line and its fields
ParsedCDNLog(ln, fs) ==
    LET request == RequestOf(fs)
        mp      == parse_request(request)
        attrs   == MergeCmcd(CmcdAttrsOf(fs, mp[2]), 1,
                             ColumnAttrs(fs))
    IN  [raw                    |-> ln,
         remote_addr            |-> get(fs, 0, << >>),
         time_local             |-> _strip_brackets(get(fs, 3, << >>)),
         request                |-> request,
         method                 |-> mp[1],
         path                   |-> mp[2],
         status                 |-> get(fs, 5, << >>),
         body_bytes_sent        |-> get(fs, 6, << >>),
         http_referer           |-> get(fs, 7, << >>),
         http_user_agent        |-> get(fs, 8, << >>),
         bytes_sent             |-> get(fs, 9, << >>),
         edgename               |-> _strip_brackets(get(fs, 10, << >>)),
         scheme                 |-> get(fs, 11, << >>),
         host                   |-> get(fs, 12, << >>),
         request_time           |-> get(fs, 13, << >>),
         upstream_cache_status  |-> get(fs, 18, << >>),
         geoip_country_code     |-> get(fs, 25, << >>),
         sent_http_content_type |-> get(fs, 39, << >>),
         attributes             |-> attrs]

\* the decision of parse_gcore_log_line with the threshold off by one
IsRecordOffByOne(ln, fs) == ln # << >> /\ Len(fs) >= MinFields - 1

\* whether the trimmed line ln with fields fs is a record
IsRecord(ln, fs) == ln # << >> /\ Len(fs) >= MinFields

parse_gcore_log_line(raw_line) ==
    LET ln == Strip(raw_line)
        fs == IF ln = << >> THEN << >> ELSE _parse_quoted_fields(ln)
    IN  IF IsRecord(ln, fs) THEN ParsedCDNLog(ln, fs) ELSE None

-----------------------------------------------------------------------------
(* otel_exporter: _parse_timestamp and emit_parsed_log *)

\* Times are counted in whole seconds since the epoch; the code scales every
\* one of them by 10^9, which keeps zero and the order.  An absent time
\* (Python's None) is the empty tuple, a time t is <<t>>.
NoTime == << >>

Digits == <<"0","1","2","3","4","5","6","7","8","9">>
IsDigit(c) == \E i \in 1..10 : Digits[i] = c
DigitVal(c) == (CHOOSE i \in 1..10 : Digits[i] = c) - 1

\* the number written by the digits of s
RECURSIVE Number(_)
Number(s) ==
    IF s = << >> THEN 0
    ELSE 10 * Number(SubSeq(s, 1, Len(s) - 1)) + DigitVal(s[Len(s)])

AllDigits(s) == \A i \in 1..Len(s) : IsDigit(s[i])

MonthNames == <<<<"j","a","n">>, <<"f","e","b">>, <<"m","a","r">>, <<"a","p","r">>, <<"m","a",
    "y">>, <<"j","u","n">>,
                <<"j","u","l">>, <<"a","u","g">>, <<"s","e","p">>, <<"o","c","t">>, <<"n","o",
                    "v">>, <<"d","e","c">>>>

IsLeap(y) == (y % 4 = 0 /\ y % 100 # 0) \/ y % 400 = 0

DaysIn(y, m) ==
    IF m = 2 THEN (IF IsLeap(y) THEN 29 ELSE 28)
    ELSE IF m \in {4, 6, 9, 11} THEN 30 ELSE 31

\* days from 1970-01-01 to the civil date y-m-d
DaysFromCivil(y, m, d) ==
    LET yy  == IF m <= 2 THEN y - 1 ELSE y
        era == yy \div 400
        yoe == yy - era * 400
        mp  == IF m > 2 THEN m - 3 ELSE m + 9
        doy == (153 * mp + 2) \div 5 + d - 1
        doe == yoe * 365 + yoe \div 4 - yoe \div 100 + doy
    IN  era * 146097 + doe - 719468

\* datetime.strptime(s, "%d/%b/%Y:%H:%M:%S %z").timestamp(), for a text
\* with two-digit day, hour, minute and second and a +/-hhmm offset;
\* NoTime where strptime raises
strptime(s) ==
    LET z == SubSeq(s, LStripFrom(s, 22, {" ", "\t"}), Len(s))
    IN  IF /\ Len(s) >= 26
           /\ AllDigits(SubSeq(s, 1, 2)) /\ s[3] = "/"
           /\ \E m \in 1..12 : MonthNames[m] = Lower(SubSeq(s, 4, 6))
           /\ s[7] = "/" /\ AllDigits(SubSeq(s, 8, 11)) /\ s[12] = ":"
           /\ AllDigits(SubSeq(s, 13, 14)) /\ s[15] = ":"
           /\ AllDigits(SubSeq(s, 16, 17)) /\ s[18] = ":"
           /\ AllDigits(SubSeq(s, 19, 20)) /\ IsSpace(s[21])
           /\ Len(z) = 5 /\ z[1] \in {"+", "-"} /\ AllDigits(SubSeq(z, 2, 5))
        THEN LET d  == Number(SubSeq(s, 1, 2))
                 m  == CHOOSE m \in 1..12 : MonthNames[m] = Lower(SubSeq(s, 4, 6))
                 y  == Number(SubSeq(s, 8, 11))
                 hh == Number(SubSeq(s, 13, 14))
                 mi == Number(SubSeq(s, 16, 17))
                 ss == Number(SubSeq(s, 19, 20))
                 zh == Number(SubSeq(z, 2, 3))
                 zm == Number(SubSeq(z, 4, 5))
                 off == (IF z[1] = "-" THEN -1 ELSE 1) * (zh * 3600 + zm * 60)
             IN  IF /\ y >= 1 /\ d >= 1 /\ d <= DaysIn(y, m)
                    /\ hh <= 23 /\ mi <= 59 /\ ss <= 59
                    /\ zm <= 59 /\ zh <= 23
                 THEN <<DaysFromCivil(y, m, d) * 86400
                        + hh * 3600 + mi * 60 + ss - off>>
                 ELSE NoTime
        ELSE NoTime

_parse_timestamp(time_local) ==
    IF time_local = << >> THEN NoTime
    ELSE strptime(StripChars(time_local, {"[", "]"}))

\* _parse_timestamp(...) or int(time.time() * 1e9): Python's "or" takes the
\* right operand when the left one is None or zero
TsOrNow(ts, now) == IF ts = NoTime \/ ts[1] = 0 THEN now ELSE ts[1]

S3KeyAttr == <<"c","d","n",".","s","3","_","k","e","y">>

\* the keyword arguments of logger.emit; now1 and now2 are the two readings
\* of time.time()
emit_parsed_log(p, key, now1, now2) ==
    [body               |-> p.raw,
     timestamp          |-> TsOrNow(_parse_timestamp(p.time_local), now1),
     observed_timestamp |-> now2,
     severity_number    |-> 9,
     severity_text      |-> "INFO",
     attributes         |-> IF key # << >>
                            THEN DictSet(p.attributes, S3KeyAttr, key)
                            ELSE p.attributes]

-----------------------------------------------------------------------------
(* Decoder runs: one line from a catalogue of generated lines is decoded   *)
(* and, when it is a record, emitted                                       *)

\* the clock at emission
Clock == 2000000000..(2000000000 + MaxTick)

\* a token that names its own 0-based position: f00, f01, ...
Filler(idx) == <<"f", Digits[(idx \div 10) + 1], Digits[(idx % 10) + 1]>>

BaseTokens(n) == [i \in 1..n |-> Filler(i - 1)]

\* the tokens with those at the positions of S replaced
Override(tokens, S) ==
    [i \in 1..Len(tokens) |->
        IF \E o \in S : o.pos = i - 1
        THEN (CHOOSE o \in S : o.pos = i - 1).tok
        ELSE tokens[i]]

RECURSIVE JoinQuoted(_, _, _)
\* tokens lo..hi, each in double quotes, separated by a space
JoinQuoted(tokens, lo, hi) ==
    IF lo > hi THEN << >>
    ELSE IF lo = hi THEN <<DQ>> \o tokens[lo] \o <<DQ>>
    ELSE JoinQuoted(tokens, lo, (lo + hi) \div 2) \o <<" ">>
         \o JoinQuoted(tokens, (lo + hi) \div 2 + 1, hi)

Render(tokens, lead, trail) ==
    lead \o JoinQuoted(tokens, 1, Len(tokens)) \o trail

\* whitespace around a line
Pads == {<< << >>, << >> >>, << <<" ">>, << >> >>, << << >>, <<" ", "\t">> >>}

\* tokens put at chosen positions
Overrides == {
    [pos |-> 0,  tok |-> <<" ">>],
    [pos |-> 2,  tok |-> <<"O","P","T","I","O","N","S"," ","/","a">>],
    [pos |-> 2,  tok |-> <<"G","E","T"," ","/","g"," ","H","T","T","P","/","1",".","1">>],
    [pos |-> 3,  tok |-> <<"[","2","6","/","A","p","r","/","2","0","1","9",":","0","9",":","4",
        "7",":","4","0"," ","+","0","0","0","0","]">>],
    [pos |-> 4,  tok |-> <<"G","E","T"," ","/","v","o","d","/","s","e","g",".","m","4","s","?",
        "c","m","c","d","=","o","t","=","v",",","b","r","=","3","2","0","0"," ","H","T","T","P",
        "/","1",".","1">>],
    [pos |-> 4,  tok |-> <<"G","E","T"," ","/","b"," ","H","T","T","P","/","1",".","1">>],
    [pos |-> 4,  tok |-> <<"H","E","A","D"," ","/","d">>],
    [pos |-> 4,  tok |-> <<>>],
    [pos |-> 5,  tok |-> <<>>],
    [pos |-> 6,  tok |-> <<" ","P","O","S","T"," ","/","c","?","c","m","c","d",".","b","r","=",
        "&","c","m","c","d","=","b","l","=",",","d","=","4"," "," ","H","T","T","P","/","2"," ">>],
    [pos |-> 9,  tok |-> <<"c","m","c","d","=","b","r","=","1",",","s","i","d","=">>],
    [pos |-> 10, tok |-> <<"[","e","d","g","e","1","]">>],
    [pos |-> 11, tok |-> <<"C","m","c","d","=","d","=","4">>],
    [pos |-> 11, tok |-> <<" ","C","M","C","D","=","b","l","=","2"," ">>],
    [pos |-> 39, tok |-> <<"h","t","t","p","s">>],
    [pos |-> 44, tok |-> <<"v","i","d","e","o","/","m","p","4">>] }

OverrideSets ==
    {S \in SUBSET Overrides :
        /\ Cardinality(S) <= MaxOverrides
        /\ \A a, b \in S : a # b => a.pos # b.pos}

\* numbers of fields of the lines that carry chosen tokens
OverrideCounts == {12, MaxFields - 5}

\* the timestamp texts put at position 3
TimeTexts ==
    {d \o <<"/">> \o m \o <<"/">> \o y \o <<":">> \o t \o <<" ">> \o z :
        d \in {<<"0","1">>, <<"3","1">>},
        m \in {<<"J","a","n">>, <<"F","e","b">>, <<"X","y","z">>},
        y \in {<<"1","9","7","0">>, <<"2","0","1","9">>},
        t \in {<<"0","0",":","0","0",":","0","0">>, <<"0","1",":","0","0",":","0","0">>, <<"0",
            "9",":","4","7",":","4","0">>},
        z \in {<<"+","0","0","0","0">>, <<"+","0","1","0","0">>}}
    \cup {<<>>, <<"-">>, <<"0","1","/","J","a","n","/","1","9","7","0",":","0","0",":","0","0",
        ":","0","0">>, <<"[","2","6","/","A","p","r","/","2","0","1","9",":","0","9",":","4","7",
        ":","4","0"," ","+","0","0","0","0">>}

TimeTokens ==
    {<<"[">> \o t \o <<"]">> : t \in TimeTexts} \cup TimeTexts

Lines ==
    {Render(BaseTokens(n), p[1], p[2]) : n \in 0..MaxFields, p \in Pads}
    \cup {Render(Override(BaseTokens(n), S), << >>, << >>) :
            n \in OverrideCounts, S \in OverrideSets}
    \cup {Render(Override(BaseTokens(12), {[pos |-> 3, tok |-> t]}), << >>, << >>) :
            t \in TimeTokens}
    \cup {<<" ">>, <<"f","0","0"," ","f","0","1"," ","f","0","2"," ","f","0","3"," ","f","0","4",
        " ","f","0","5"," ","f","0","6"," ","f","0","7"," ","f","0","8"," ","f","0","9"," ","f",
        "1","0">>}

KeyPool == {<<>>, <<"l","o","g","s","/","e","1","_","c","1","_","a","c","c","e","s","s",".","l",
    "o","g",".","g","z">>}

Init ==
    /\ RunIdle
    /\ pc = "read"
    /\ line \in Lines
    /\ s3_key \in KeyPool
    /\ parsed = None
    /\ event = None
    /\ fields = << >>
    /\ query_string = << >>
    /\ out = << >>

\* parsed = parse_gcore_log_line(line)
ParseLine ==
    /\ pc = "read"
    /\ parsed' = parse_gcore_log_line(line)
    /\ pc' = "parsed"
    /\ UNCHANGED <<line, fields, s3_key, event, query_string, out, runVars>>

\* if parsed: emit_parsed_log(logger, parsed, s3_key=key_item)
EmitParsedLog ==
    /\ pc = "parsed"
    /\ parsed # None
    /\ \E now1, now2 \in Clock :
          /\ now1 <= now2
          /\ event' = emit_parsed_log(parsed, s3_key, now1, now2)
    /\ pc' = "emitted"
    /\ UNCHANGED <<line, fields, parsed, s3_key, query_string, out, runVars>>

\* a line that is not a record is passed over
SkipLine ==
    /\ pc = "parsed"
    /\ parsed = None
    /\ pc' = "skipped"
    /\ UNCHANGED <<line, fields, parsed, s3_key, event, query_string, out, runVars>>

Next == ParseLine \/ EmitParsedLog \/ SkipLine

Spec == Init /\ [][Next]_vars

-----------------------------------------------------------------------------
(* Claims about the decoder and the emitter *)

\* the tokens of the current line, as the decoder sees them
TokensOf(raw_line) == _parse_quoted_fields(Strip(raw_line))

\* C1: the decoder returns None for every line that is empty after trimming
\* and for every line with fewer than 10 quoted fields, and a record for
\* every line with 10 or more.
C1_RecordIffTenFields ==
    pc # "read" =>
        (parsed = None
            <=> (Strip(line) = << >>
                 \/ Len(TokensOf(line)) < 10))

\* a line of exactly nine fields has been passed over
C1_Witness ==
    /\ pc = "skipped"
    /\ Len(TokensOf(line)) = 9
    /\ parsed = None

\* the HTTP method names a request begins with
Methods == {<<"G","E","T">>, <<"P","O","S","T">>, <<"H","E","A","D">>, <<"P","U","T">>, <<"O","P",
    "T","I","O","N","S">>}

\* a token that is request-shaped: a method name, a space, and a remainder
\* that holds a slash and further whitespace-separated content
RequestShaped(tok) ==
    LET s == Strip(tok)
    IN  \E m \in Methods :
            /\ StartsWith(s, m \o <<" ">>)
            /\ LET rest == Strip(SubSeq(s, Len(m) + 2, Len(s)))
               IN  /\ Contains(rest, "/")
                   /\ \E i \in 1..Len(rest) : IsSpace(rest[i])

\* C3: method and path come from the first request-shaped token, wherever it
\* stands, and from the token at position 4 only when no token is
\* request-shaped.
C3_FirstRequestShapedToken ==
    parsed # None =>
        LET fs     == TokensOf(line)
            shaped == {i \in 1..Len(fs) : RequestShaped(fs[i])}
            text   == IF shaped # {} THEN Strip(fs[Least(shaped)])
                      ELSE get(fs, 4, << >>)
        IN  /\ parsed.request = text
            /\ <<parsed.method, parsed.path>> = parse_request(text)

\* the scalar fields of a record that are populated by position
PositionalScalars == {
    [field |-> "remote_addr",            name |-> <<"r","e","m","o","t","e","_","a","d","d","r">>],
    [field |-> "status",                 name |-> <<"s","t","a","t","u","s">>],
    [field |-> "body_bytes_sent",        name |-> <<"b","o","d","y","_","b","y","t","e","s","_",
        "s","e","n","t">>],
    [field |-> "http_referer",           name |-> <<"h","t","t","p","_","r","e","f","e","r","e",
        "r">>],
    [field |-> "http_user_agent",        name |-> <<"h","t","t","p","_","u","s","e","r","_","a",
        "g","e","n","t">>],
    [field |-> "bytes_sent",             name |-> <<"b","y","t","e","s","_","s","e","n","t">>],
    [field |-> "edgename",               name |-> <<"e","d","g","e","n","a","m","e">>],
    [field |-> "scheme",                 name |-> <<"s","c","h","e","m","e">>],
    [field |-> "host",                   name |-> <<"h","o","s","t">>],
    [field |-> "request_time",           name |-> <<"r","e","q","u","e","s","t","_","t","i","m",
        "e">>],
    [field |-> "upstream_cache_status",  name |-> <<"u","p","s","t","r","e","a","m","_","c","a",
        "c","h","e","_","s","t","a","t","u","s">>],
    [field |-> "geoip_country_code",     name |-> <<"g","e","o","i","p","_","c","o","u","n","t",
        "r","y","_","c","o","d","e">>],
    [field |-> "sent_http_content_type", name |-> <<"s","e","n","t","_","h","t","t","p","_","c",
        "o","n","t","e","n","t","_","t","y","p","e">>] }

\* the 0-based index at which FIELD_NAMES lists a name
IndexOfName(name) ==
    (CHOOSE i \in 1..Len(FIELD_NAMES) : FIELD_NAMES[i] = name) - 1

\* C4: each positional scalar is read from the token index at which
\* FIELD_NAMES lists its name, so a non-empty scalar X equals the attribute
\* "cdn.X" (up to bracket stripping for edgename).
C4_ScalarsMatchAttributes ==
    parsed # None =>
        \A f \in PositionalScalars :
            LET fs    == TokensOf(line)
                x     == parsed[f.field]
                tok   == get(fs, IndexOfName(f.name), << >>)
                attrs == parsed.attributes
                key   == CdnDot \o f.name
            IN  /\ x = (IF f.field = "edgename" THEN _strip_brackets(tok) ELSE tok)
                /\ x # << >> =>
                      /\ DictHas(attrs, key)
                      /\ x = (IF f.field = "edgename"
                              THEN _strip_brackets(DictGet(attrs, key))
                              ELSE DictGet(attrs, key))

\* C5: the body of every exported event is the raw line as supplied to the
\* decoder, character for character, leading and trailing whitespace
\* included.
C5_BodyVerbatim ==
    pc = "emitted" => event.body = line

\* the entries of an attribute mapping whose key is a metrics key
MetricsEntries(attrs) ==
    {attrs[i] : i \in {j \in 1..Len(attrs) : StartsWith(attrs[j].k, CmcdDot)}}

\* the entries of a mapping whose value is not empty
NonEmptyEntries(d) == {d[i] : i \in {j \in 1..Len(d) : d[j].v # << >>}}

\* C6: when the extractor finds no key in the query of the path, the first
\* token that begins with "cmcd=" in any letter case is fed to the extractor;
\* when the path yields a key, no such token is consulted.
C6_FallbackAnyCase ==
    parsed # None =>
        LET fs        == TokensOf(line)
            from_path == parse_cmcd_from_path(parsed.path)
            marked    == {i \in 1..Len(fs) :
                             StartsWith(Lower(Strip(fs[i])), <<"c","m","c","d","=">>)}
            metrics   == IF from_path # << >> THEN from_path
                         ELSE IF marked # {}
                         THEN parse_cmcd_from_query_string(Strip(fs[Least(marked)]))
                         ELSE << >>
        IN  MetricsEntries(parsed.attributes) = NonEmptyEntries(metrics)

\* C9: in a record's attribute mapping no metrics key has an empty value (a
\* metrics key decoded with an empty value is absent), every named column
\* within the token count is present, with "-" for an empty trimmed token,
\* and every column beyond the token count is absent.
C9_AttributeMapping ==
    parsed # None =>
        LET fs      == TokensOf(line)
            attrs   == parsed.attributes
            decoded == CmcdAttrsOf(fs, parsed.path)
        IN  /\ \A e \in MetricsEntries(attrs) : e.v # << >>
            /\ \A j \in 1..Len(decoded) :
                   decoded[j].v = << >> => ~DictHas(attrs, decoded[j].k)
            /\ \A idx \in 0..(Len(FIELD_NAMES) - 1) :
                   LET name == FIELD_NAMES[idx + 1]
                       key  == CdnDot \o name
                   IN  name[1] # "_" =>
                          IF idx < Len(fs)
                          THEN /\ DictHas(attrs, key)
                               /\ DictGet(attrs, key) =
                                     (IF Strip(fs[idx + 1]) = << >> THEN <<"-">>
                                      ELSE Strip(fs[idx + 1]))
                          ELSE ~DictHas(attrs, key)

\* a record of fewer tokens than columns, with an empty token and with a
\* metrics key decoded to an empty value beside one decoded to a value
C9_Witness ==
    /\ pc = "emitted"
    /\ LET fs      == TokensOf(line)
           decoded == CmcdAttrsOf(fs, parsed.path)
       IN  /\ Len(fs) < Len(FIELD_NAMES)
           /\ \E i \in 1..Len(fs) : Strip(fs[i]) = << >>
           /\ \E j \in 1..Len(decoded) : decoded[j].v = << >>
           /\ \E j \in 1..Len(decoded) : decoded[j].v # << >>

\* C10: the event timestamp is the time parsed from the record's timestamp
\* field whenever that field parses; the current time stands in only when
\* parsing fails.
C10_EventTimestamp ==
    pc = "emitted" =>
        LET ts == _parse_timestamp(parsed.time_local)
        IN  /\ ts # NoTime => event.timestamp = ts[1]
            /\ ts = NoTime => event.timestamp \in Clock

\* a token that is a method name, a space and a path with nothing after it
MethodAndPathOnly(tok) ==
    LET s == Strip(tok)
    IN  \E m \in Methods :
            /\ StartsWith(s, m \o <<" ">>)
            /\ LET rest == Strip(SubSeq(s, Len(m) + 2, Len(s)))
               IN  /\ Contains(rest, "/")
                   /\ \A i \in 1..Len(rest) : ~IsSpace(rest[i])

\* C14: _find_request_field accepts a token exactly when the trimmed token
\* begins with a known method name and a space and the remainder after the
\* method holds a slash and further whitespace-separated content; for every
\* method, a token "METHOD /path" with nothing after the path is not
\* accepted.
C14_AcceptsOnlyRequestShaped ==
    parsed # None =>
        LET fs == TokensOf(line)
        IN  \A i \in 1..Len(fs) :
                /\ _find_request_field(<<fs[i]>>) # << >> <=> RequestShaped(fs[i])
                /\ MethodAndPathOnly(fs[i]) => _find_request_field(<<fs[i]>>) = << >>

\* a text with one layer of enclosing brackets removed when it starts with
\* "[" and ends with "]", and unchanged otherwise
OneBracketLayer(t) ==
    IF Len(t) >= 2 /\ t[1] = "[" /\ t[Len(t)] = "]"
    THEN SubSeq(t, 2, Len(t) - 1)
    ELSE t

\* C15: the record's time_local is the trimmed token at position 3 with
\* exactly one layer of enclosing brackets removed when the token is enclosed
\* in "[" and "]", and unchanged otherwise: further brackets and a bracket on
\* one side only are preserved.
C15_TimeLocalOneBracketLayer ==
    parsed # None =>
        parsed.time_local = OneBracketLayer(get(TokensOf(line), 3, << >>))

-----------------------------------------------------------------------------
(* collector: _iter_keys and run *)

\* most objects in the listing of a run
MaxObjects == 2

\* the name of the i-th object of the listing
KeyName(i) == <<"k", Digits[i + 1]>>

\* list_log_objects: the keys of the listing, in order
list_log_objects(b) == [i \in 1..Len(b) |-> KeyName(i)]

\* stream_log_lines: the lines of the object named k, in file order
stream_log_lines(b, k) == b[CHOOSE i \in 1..Len(b) : KeyName(i) = k]

\* the test "limit and count >= limit" with the comparison made strict
LimitReachedLate(count, limit) == limit # 0 /\ count > limit

\* the test "limit and count >= limit" of the three limits; a limit of None
\* or 0 is no limit
LimitReached(count, limit) == limit # 0 /\ count >= limit

\* _iter_keys: the keys it yields, in order
_iter_keys(b, sk, mo) ==
    IF sk # NoKey THEN <<sk>>
    ELSE LET ks   == list_log_objects(b)
             stop == {c \in 1..Len(ks) : LimitReached(c, mo)}
         IN  SubSeq(ks, 1, IF stop = {} THEN Len(ks) ELSE Least(stop))

\* keys_iter = _iter_keys(..., max_objects if not key else 1)
keys_iter ==
    _iter_keys(bucket, single_key, IF single_key = NoKey THEN max_objects ELSE 1)

\* {k: v for k, v in parsed.attributes.items() if k.startswith("cmcd.")}
CmcdOnly(attrs) == SelectSeq(attrs, LAMBDA e : StartsWith(e.k, CmcdDot))

\* the lines of the objects of a run: a record with metrics in its request,
\* a record without metrics, and a line of too few fields
CmcdLine ==
    Render(Override(BaseTokens(MinFields),
                    {[pos |-> 4, tok |-> <<"G","E","T"," ","/","a","?","c","m","c","d","=","b",
                        "r","=","1"," ","H","T","T","P","/","1",".","1">>]}), << >>, << >>)

RecordLine == Render(BaseTokens(MinFields), << >>, << >>)

NonRecordLine == Render(BaseTokens(MinFields - 1), << >>, << >>)

\* the objects a listing is made of
ObjectPool == {<<CmcdLine, NonRecordLine, RecordLine>>, <<RecordLine>>, << >>}

\* the values of max_lines_per_file
LineLimits == {0, 1, 2}

InitRun ==
    /\ pc = "run_start"
    /\ dry_run \in BOOLEAN /\ inspect_cmcd \in BOOLEAN /\ verbose \in BOOLEAN
    /\ bucket \in SeqsUpTo(ObjectPool, MaxObjects)
    /\ max_objects \in 0..MaxObjects
    /\ max_lines_per_file \in LineLimits
    /\ single_key \in {NoKey} \cup {KeyName(i) : i \in {Len(bucket)} \ {0}}
    /\ RunLocalsInit
    /\ line = << >> /\ fields = << >> /\ parsed = None /\ s3_key = << >>
    /\ event = None /\ query_string = << >> /\ out = << >>

\* if dry_run: ... return 0
DryRun ==
    /\ pc = "run_start"
    /\ dry_run
    /\ stderr' = [i \in 1..Len(keys_iter) |-> "Would process"]
    /\ result' = <<0>>
    /\ pc' = "run_done"
    /\ UNCHANGED <<pipeVars, runParams, runLocals, emits>>

\* if inspect_cmcd: ... up to the loop over the keys
StartInspect ==
    /\ pc = "run_start"
    /\ ~dry_run /\ inspect_cmcd
    /\ stderr' = IF verbose /\ single_key # NoKey
                 THEN Append(stderr, "Fetching single key") ELSE stderr
    /\ pc' = "inspect_keys"
    /\ UNCHANGED <<pipeVars, runParams, runLocals, emits, result>>

\* for key_item, _last_mod, _size in keys_iter: ... line_count = 0
InspectObject ==
    /\ pc = "inspect_keys"
    /\ objects_processed < Len(keys_iter)
    /\ key_item' = keys_iter[objects_processed + 1]
    /\ stderr' = IF verbose /\ single_key = NoKey /\ objects_processed = 0
                 THEN Append(stderr, "Listing") ELSE stderr
    /\ line_count' = 0
    /\ pc' = "inspect_lines"
    /\ UNCHANGED <<pipeVars, runParams, parsed_count, emitted, objects_processed,
                   total_lines_read, cmcd_count, total_lines, emits, result>>

\* the body of the loop over the lines of an object, inspection mode
InspectLine ==
    /\ pc = "inspect_lines"
    /\ line_count < Len(stream_log_lines(bucket, key_item))
    /\ ~LimitReached(line_count, max_lines_per_file)
    /\ LET p    == parse_gcore_log_line(stream_log_lines(bucket, key_item)[line_count + 1])
           cmcd == IF p = None THEN << >> ELSE CmcdOnly(p.attributes)
       IN  /\ total_lines' = IF p # None THEN total_lines + 1 ELSE total_lines
           /\ cmcd_count' = IF cmcd # << >> THEN cmcd_count + 1 ELSE cmcd_count
           /\ stderr' = IF cmcd # << >>
                        THEN stderr \o <<"request", "CMCD", "---">> ELSE stderr
    /\ line_count' = line_count + 1
    /\ UNCHANGED <<pc, pipeVars, runParams, key_item, parsed_count, emitted,
                   objects_processed, total_lines_read, emits, result>>

\* the loop over the lines ends (no line left, or break): objects_processed += 1
InspectObjectDone ==
    /\ pc = "inspect_lines"
    /\ \/ line_count >= Len(stream_log_lines(bucket, key_item))
       \/ LimitReached(line_count, max_lines_per_file)
    /\ objects_processed' = objects_processed + 1
    /\ key_item' = NoKey
    /\ pc' = "inspect_keys"
    /\ UNCHANGED <<pipeVars, runParams, line_count, parsed_count, emitted,
                   total_lines_read, cmcd_count, total_lines, runOut>>

\* print("Inspect summary: ..."); return 0
InspectFinish ==
    /\ pc = "inspect_keys"
    /\ objects_processed >= Len(keys_iter)
    /\ stderr' = Append(stderr, "Inspect summary")
    /\ result' = <<0>>
    /\ pc' = "run_done"
    /\ UNCHANGED <<pipeVars, runParams, runLocals, emits>>

\* provider, logger = create_logger_provider(...); emitted = 0; ...
StartExport ==
    /\ pc = "run_start"
    /\ ~dry_run /\ ~inspect_cmcd
    /\ pc' = "export_keys"
    /\ UNCHANGED <<pipeVars, runVars>>

\* for key_item, _last_mod, _size in keys_iter: ... parsed_count = 0
ExportObject ==
    /\ pc = "export_keys"
    /\ objects_processed < Len(keys_iter)
    /\ key_item' = keys_iter[objects_processed + 1]
    /\ stderr' = IF verbose /\ single_key # NoKey THEN Append(stderr, "Processing")
                 ELSE IF verbose /\ objects_processed = 0 THEN Append(stderr, "Listing")
                 ELSE stderr
    /\ line_count' = 0
    /\ parsed_count' = 0
    /\ pc' = "export_lines"
    /\ UNCHANGED <<pipeVars, runParams, emitted, objects_processed, total_lines_read,
                   cmcd_count, total_lines, emits, result>>

\* the body of the loop over the lines of an object, export mode
ExportLine ==
    /\ pc = "export_lines"
    /\ line_count < Len(stream_log_lines(bucket, key_item))
    /\ ~LimitReached(line_count, max_lines_per_file)
    /\ LET p    == parse_gcore_log_line(stream_log_lines(bucket, key_item)[line_count + 1])
           cmcd == IF p = None THEN << >> ELSE CmcdOnly(p.attributes)
       IN  /\ stderr' = IF cmcd # << >> THEN Append(stderr, "CMCD") ELSE stderr
           /\ emits' = IF p # None
                       THEN Append(emits, [parsed |-> p, s3_key |-> key_item])
                       ELSE emits
           /\ emitted' = IF p # None THEN emitted + 1 ELSE emitted
           /\ parsed_count' = IF p # None THEN parsed_count + 1 ELSE parsed_count
    /\ line_count' = line_count + 1
    /\ UNCHANGED <<pc, pipeVars, runParams, key_item, objects_processed,
                   total_lines_read, cmcd_count, total_lines, result>>

\* the loop over the lines ends: total_lines_read += line_count; ...;
\* objects_processed += 1; if max_objects and objects_processed >= max_objects: break
ExportObjectDone ==
    /\ pc = "export_lines"
    /\ \/ line_count >= Len(stream_log_lines(bucket, key_item))
       \/ LimitReached(line_count, max_lines_per_file)
    /\ total_lines_read' = total_lines_read + line_count
    /\ stderr' = IF verbose THEN Append(stderr, "lines, parsed") ELSE stderr
    /\ objects_processed' = objects_processed + 1
    /\ key_item' = NoKey
    /\ pc' = IF LimitReached(objects_processed + 1, max_objects)
             THEN "export_end" ELSE "export_keys"
    /\ UNCHANGED <<pipeVars, runParams, line_count, parsed_count, emitted,
                   cmcd_count, total_lines, emits, result>>

\* provider.shutdown(); if verbose: print("Summary: ..."), and the listing of
\* raw keys when no object matched; return emitted
ExportFinish ==
    /\ \/ pc = "export_end"
       \/ pc = "export_keys" /\ objects_processed >= Len(keys_iter)
    /\ stderr' = IF ~verbose THEN stderr
                 ELSE IF objects_processed = 0 THEN stderr \o <<"Summary", "Debug">>
                 ELSE Append(stderr, "Summary")
    /\ result' = <<emitted>>
    /\ pc' = "run_done"
    /\ UNCHANGED <<pipeVars, runParams, runLocals, emits>>

NextRun ==
    \/ DryRun
    \/ StartInspect \/ InspectObject \/ InspectLine \/ InspectObjectDone \/ InspectFinish
    \/ StartExport \/ ExportObject \/ ExportLine \/ ExportObjectDone \/ ExportFinish

SpecRun == InitRun /\ [][NextRun]_vars

-----------------------------------------------------------------------------
(* Claims about run *)

\* the print statements that are executed once for a log line
PerLinePrints == {"request", "CMCD", "---"}

\* C12: output produced per log line occurs only when the verbose flag or
\* the metrics-inspection flag is set: with both flags off, no print
\* statement that belongs to a line has been executed.
C12_PerLineOutputOnlyWhenAsked ==
    (~verbose /\ ~inspect_cmcd) =>
        \A i \in 1..Len(stderr) : stderr[i] \notin PerLinePrints

\* the first limit elements of a sequence; a limit of 0 is no limit
UpTo(s, limit) == IF limit = 0 THEN s ELSE SubSeq(s, 1, Min(limit, Len(s)))

\* the keys a run is to process: the single key, or the listing up to the
\* max-objects limit
SelectedKeys ==
    IF single_key # NoKey THEN <<single_key>>
    ELSE UpTo([i \in 1..Len(bucket) |-> KeyName(i)], max_objects)

\* the events of the lines of one object, up to the max-lines limit: one
\* for each line that decodes to a record, in file order
EventsOf(k) ==
    LET ls   == UpTo(stream_log_lines(bucket, k), max_lines_per_file)
        recs == SelectSeq(ls, LAMBDA l : parse_gcore_log_line(l) # None)
    IN  [j \in 1..Len(recs) |-> [parsed |-> parse_gcore_log_line(recs[j]), s3_key |-> k]]

RECURSIVE EventsFrom(_, _)
EventsFrom(ks, i) ==
    IF i > Len(ks) THEN << >> ELSE EventsOf(ks[i]) \o EventsFrom(ks, i + 1)

\* the events an export run is to hand to the export client, in order
ExpectedEmits == EventsFrom(SelectedKeys, 1)

\* C13: run returns the number of log records emitted, and in dry-run mode
\* the number that would be emitted had the run not been dry (none in
\* inspection mode, which exports nothing).
C13_ReturnsEmittedCount ==
    pc = "run_done" =>
        result = <<IF ~dry_run THEN Len(emits)
                   ELSE IF inspect_cmcd THEN 0
                   ELSE Len(ExpectedEmits)>>

\* s is an initial part of t
IsPrefix(s, t) == Len(s) <= Len(t) /\ s = SubSeq(t, 1, Len(s))

\* C16: in export mode the events handed to the export client are, at every
\* moment, an initial part of the sequence of the lines that decode to a
\* record, object by object in listing order and line by line in file order
\* up to the two limits, and when run returns they are that whole sequence:
\* one emit for each such line, none for any other line, none out of order
\* and none twice.
C16_EmitsInOrder ==
    (pc \in {"export_keys", "export_lines", "export_end", "run_done"}
     /\ ~dry_run /\ ~inspect_cmcd) =>
        /\ IsPrefix(emits, ExpectedEmits)
        /\ Len(emits) = emitted
        /\ pc = "run_done" => emits = ExpectedEmits /\ result = <<Len(ExpectedEmits)>>

\* an export run over two objects has returned: the line limit has cut the
\* first object short, a line that is no record was read, and both objects
\* have given an event
C16_Witness ==
    /\ pc = "run_done" /\ ~dry_run /\ ~inspect_cmcd
    /\ Len(bucket) = 2 /\ single_key = NoKey
    /\ max_lines_per_file = 2 /\ Len(bucket[1]) = 3
    /\ Len(emits) = 2
    /\ emits[1].s3_key = KeyName(1) /\ emits[2].s3_key = KeyName(2)
    /\ total_lines_read > Len(emits)

====
